---- MODULE Spec2Model ----
(***************************************************************************)
(* sshego: the per-channel buffer (xcryptossh/buffer.go) and the           *)
(* reconnecting supervisor Tricorder (tri.go), as state machines.          *)
(*                                                                         *)
(* BufSpec / FairBufSpec : one producer (write, eof), the idle timer       *)
(*   (timeout, firing, halt) and one consumer (Read) on one buffer.        *)
(* TriSpec : the Tricorder loop, its callers and the dial.                 *)
(***************************************************************************)
EXTENDS Integers, Sequences, FiniteSets, TLC

\* ---------------------------------------------------------------- bounds
MaxBytes == 3
MaxSlice == 2
MaxWrites == 3
MaxDst == 2
MaxChans == 2
MaxReconnects == 2
TimeWidth == 8
MaxTuples == 2
MaxDials == 2

\* the goroutines that call SSHChannel, Cli and Nc
Callers == {"c1", "c2"}

\* ------------------------------------------------------------- variables
VARIABLES
  list,        \* buffer.head .. buffer.tail: the linked list of element.buf
  closed,      \* buffer.closed
  mu,          \* buffer.Cond.L: "free", "reader" or "producer"
  waiting,     \* the reader is on the notify list of buffer.Cond
  ppc,         \* producer: "idle", or the call it holds the mutex for
  parg,        \* producer: the slice passed to write
  rpc,         \* position of the consumer inside Read
  rdst,        \* Read: len of the destination slice as passed
  rlen,        \* Read: len(buf), the part of the destination still free
  out,         \* Read: the bytes copied into the destination so far
  n,           \* Read: n
  err,         \* Read: err ("nil", "EOF", "timeout")
  idleFired,   \* idleTimer: the timer has fired, TimedOut delivers a reason
  idleHalt,    \* idleTimer.halt.ReqStop is closed
  written,     \* history: all bytes passed to write, in call order
  nwrites,     \* history: number of calls of write
  delivered,   \* history: all bytes returned by Reads, in return order
  eofCalled,   \* history: eof() has been called
  sawTimeout,  \* history: a Read has returned ErrTimeout
  resetTick,   \* history: flips at every call of idle.Reset
  timeoutCalled, \* history: timeout() was called since the timer fired
  sawEOF,      \* history: a Read has returned io.EOF
  tpc,         \* Tricorder: position of the goroutine of startReconnectLoop
  panicking,   \* Tricorder: that goroutine is unwinding a panic
  cli,         \* Tricorder.cli: 0 is nil, k the client of the k-th connect
  nc,          \* Tricorder.nc: 0 is nil, k the net.Conn of the k-th connect
  uhp,         \* Tricorder.uhp
  sshChannels, \* Tricorder.sshChannels: the keys; the value is chans[k].cancel
  reconnectNeededCh, \* Tricorder.reconnectNeededCh, capacity 1
  ReqStop,     \* Tricorder.Halt.ReqStop is closed
  Done,        \* Tricorder.Halt.Done is closed
  cfg,         \* Tricorder.cfg: IdleTimeoutDur
  conns,       \* every connection SSHConnect returned: whether it is closed
  dialled,     \* user, host and port the latest connection was dialled to
  chans,       \* every ssh.Channel OpenChannel returned, and its state
  curTk,       \* startReconnectLoop: tk, the caller whose ticket is handled
  cpc,         \* per caller: where it is in SSHChannel, Cli or Nc
  tk,          \* per caller: its getChannelTicket
  cret,        \* per caller: what its last SSHChannel call returned
  nreq,        \* history: number of reconnect requests published
  ndial,       \* history: SSHConnect calls made for the current request
  dialFailed,  \* history: the dial of the current request failed
  cert,        \* CertChecker: the Certificate presented
  clock,       \* CertChecker.Clock: the time it returns
  principal,   \* CheckCert: the principal asked for
  addr,        \* NewClientConn: the address dialed
  certpc,      \* which check has run on the certificate
  checkErr,    \* what CheckCert returned
  clientErr,   \* what NewClientConn returned
  serverErr,   \* what NewServerConn returned
  line,        \* ParseAuthorizedKey: the line passed in
  pkey,        \* ParseAuthorizedKey: the key returned
  comment,     \* ParseAuthorizedKey: the comment returned
  options,     \* ParseAuthorizedKey: the options returned
  perr,        \* ParseAuthorizedKey: the error returned
  marshaled,   \* MarshalAuthorizedKey: the line returned
  keypc,       \* position in the parse-then-marshal sequence
  dc,          \* DialConfig: TofuAddIfNotKnown
  AddIfNotKnown, \* Dial: cfg.AddIfNotKnown
  tryCount,    \* Dial: tryCount
  pass,        \* Dial: i, the pass of the loop
  sshClientConn, \* Dial: sshClientConn, 0 is nil
  derr,        \* Dial: err
  dpc,         \* position inside Dial
  serverKey,   \* the host key the server presents
  knownHosts,  \* dc.KnownHosts: the host keys stored
  dconns,      \* every client SSHConnect returned in this call of Dial
  attempts,    \* history: cfg.AddIfNotKnown at each SSHConnect of the call
  storedAt,    \* history: the attempt of this call that stored a key, or 0
  nstored,     \* history: keys stored through this DialConfig
  ncalls,      \* history: calls of Dial
  dret         \* what the last call of Dial returned: nc, client, err

bufvars == <<list, closed, mu, waiting, ppc, parg, rpc, rdst, rlen, out, n,
             err, idleFired, idleHalt, written, nwrites, delivered,
             eofCalled, sawTimeout, resetTick, timeoutCalled, sawEOF>>

trivars == <<tpc, panicking, cli, nc, uhp, sshChannels, reconnectNeededCh,
             ReqStop, Done, cfg, conns, dialled, chans, curTk, cpc, tk, cret,
             nreq, ndial, dialFailed>>

certvars == <<cert, clock, principal, addr, certpc, checkErr, clientErr,
              serverErr>>

keyvars == <<line, pkey, comment, options, perr, marshaled, keypc>>

dialvars == <<dc, AddIfNotKnown, tryCount, pass, sshClientConn, derr, dpc,
              serverKey, knownHosts, dconns, attempts, storedAt, nstored,
              ncalls, dret>>

vars == <<bufvars, trivars, certvars, keyvars, dialvars>>

\* --------------------------------------------------------------- helpers
Min(a, b) == IF a < b THEN a ELSE b

RECURSIVE Flatten(_)
Flatten(l) == IF l = <<>> THEN <<>> ELSE Head(l) \o Flatten(Tail(l))

\* the bytes queued and not yet copied by Read
Unread == Flatten(list)

IsPrefix(s, t) == Len(s) <= Len(t) /\ SubSeq(t, 1, Len(s)) = s

\* the next k bytes of the producer's stream: each byte is its position
NextBytes(k) == [i \in 1..k |-> Len(written) + i]

\* sync.Cond.Signal: wakes one goroutine of the notify list, if there is one
Signal == waiting' = FALSE

\* idleTimer.Reset: the timer starts anew
Reset ==
  /\ idleFired' = FALSE
  /\ resetTick' = ~resetTick
  /\ timeoutCalled' = FALSE

\* ----------------------------------------------------------- newBuffer
newBuffer ==
  /\ list = << <<>> >>
  /\ closed = FALSE
  /\ mu = "free"
  /\ waiting = FALSE

InitBuf ==
  /\ newBuffer
  /\ ppc = "idle" /\ parg = <<>>
  /\ rpc = "idle" /\ rdst = 0 /\ rlen = 0 /\ out = <<>> /\ n = 0 /\ err = "nil"
  /\ idleFired = FALSE /\ idleHalt = FALSE
  /\ written = <<>> /\ nwrites = 0 /\ delivered = <<>>
  /\ eofCalled = FALSE /\ sawTimeout = FALSE
  /\ resetTick = FALSE /\ timeoutCalled = FALSE /\ sawEOF = FALSE

\* ------------------------------------------------------------- producer
\* write: b.Cond.L.Lock()
write_Lock ==
  /\ ppc = "idle" /\ mu = "free"
  /\ nwrites < MaxWrites
  /\ \E k \in 0..MaxSlice :
       /\ Len(written) + k <= MaxBytes
       /\ parg' = NextBytes(k)
  /\ mu' = "producer" /\ ppc' = "write"
  /\ UNCHANGED <<trivars, certvars, keyvars, dialvars>>
  /\ UNCHANGED <<list, closed, waiting, rpc, rdst, rlen, out, n, err,
                 idleFired, idleHalt, written, nwrites, delivered, eofCalled,
                 sawTimeout, resetTick, timeoutCalled, sawEOF>>

\* a write that does not signal the Cond
write_Body_withoutSignal ==
  /\ ppc = "write"
  /\ list' = Append(list, parg)
  /\ mu' = "free" /\ ppc' = "idle" /\ parg' = <<>>
  /\ written' = written \o parg
  /\ nwrites' = nwrites + 1
  /\ UNCHANGED <<trivars, certvars, keyvars, dialvars>>
  /\ UNCHANGED <<closed, waiting, rpc, rdst, rlen, out, n, err, idleFired,
                 idleHalt, delivered, eofCalled,
                 sawTimeout, resetTick, timeoutCalled, sawEOF>>

\* a write that opens a closed buffer again
write_Body_reopening ==
  /\ ppc = "write"
  /\ list' = Append(list, parg)
  /\ Signal
  /\ closed' = FALSE
  /\ mu' = "free" /\ ppc' = "idle" /\ parg' = <<>>
  /\ written' = written \o parg
  /\ nwrites' = nwrites + 1
  /\ UNCHANGED <<trivars, certvars, keyvars, dialvars>>
  /\ UNCHANGED <<rpc, rdst, rlen, out, n, err, idleFired, idleHalt,
                 delivered, eofCalled,
                 sawTimeout, resetTick, timeoutCalled, sawEOF>>

\* write: append the element, Signal, Unlock
write_Body ==
  /\ ppc = "write"
  /\ list' = Append(list, parg)
  /\ Signal
  /\ mu' = "free" /\ ppc' = "idle" /\ parg' = <<>>
  /\ written' = written \o parg
  /\ nwrites' = nwrites + 1
  /\ UNCHANGED <<trivars, certvars, keyvars, dialvars>>
  /\ UNCHANGED <<closed, rpc, rdst, rlen, out, n, err, idleFired, idleHalt,
                 delivered, eofCalled,
                 sawTimeout, resetTick, timeoutCalled, sawEOF>>

\* eof: b.Cond.L.Lock()
eof_Lock ==
  /\ ppc = "idle" /\ mu = "free"
  /\ mu' = "producer" /\ ppc' = "eof"
  /\ UNCHANGED <<trivars, certvars, keyvars, dialvars>>
  /\ UNCHANGED <<list, closed, waiting, parg, rpc, rdst, rlen, out, n, err,
                 idleFired, idleHalt, written, nwrites, delivered, eofCalled,
                 sawTimeout, resetTick, timeoutCalled, sawEOF>>

\* eof: closed = true, Signal, Unlock
eof_Body ==
  /\ ppc = "eof"
  /\ closed' = TRUE
  /\ Signal
  /\ mu' = "free" /\ ppc' = "idle"
  /\ eofCalled' = TRUE
  /\ UNCHANGED <<trivars, certvars, keyvars, dialvars>>
  /\ UNCHANGED <<list, parg, rpc, rdst, rlen, out, n, err, idleFired,
                 idleHalt, written, nwrites, delivered,
                 sawTimeout, resetTick, timeoutCalled, sawEOF>>

\* a timeout that closes the buffer as eof does
timeout_closing ==
  /\ closed' = TRUE
  /\ Signal
  /\ timeoutCalled' = (timeoutCalled \/ idleFired)
  /\ UNCHANGED <<trivars, certvars, keyvars, dialvars>>
  /\ UNCHANGED <<list, mu, ppc, parg, rpc, rdst, rlen, out, n, err, idleFired,
                 idleHalt, written, nwrites, delivered, eofCalled,
                 sawTimeout, resetTick, sawEOF>>

\* timeout: Signal, without the mutex
timeout ==
  /\ Signal
  /\ timeoutCalled' = (timeoutCalled \/ idleFired)
  /\ UNCHANGED <<trivars, certvars, keyvars, dialvars>>
  /\ UNCHANGED <<list, closed, mu, ppc, parg, rpc, rdst, rlen, out, n, err,
                 idleFired, idleHalt, written, nwrites, delivered, eofCalled,
                 sawTimeout, resetTick, sawEOF>>

\* ----------------------------------------------------------- idle timer
\* the idle duration elapses with no Reset
TimerFire ==
  /\ ~idleFired /\ ~idleHalt
  /\ idleFired' = TRUE
  /\ UNCHANGED <<trivars, certvars, keyvars, dialvars>>
  /\ UNCHANGED <<list, closed, mu, waiting, ppc, parg, rpc, rdst, rlen, out,
                 n, err, idleHalt, written, nwrites, delivered, eofCalled,
                 sawTimeout, resetTick, timeoutCalled, sawEOF>>

\* idle.halt.ReqStop is closed
RequestStop ==
  /\ ~idleHalt
  /\ idleHalt' = TRUE
  /\ UNCHANGED <<trivars, certvars, keyvars, dialvars>>
  /\ UNCHANGED <<list, closed, mu, waiting, ppc, parg, rpc, rdst, rlen, out,
                 n, err, idleFired, written, nwrites, delivered, eofCalled,
                 sawTimeout, resetTick, timeoutCalled, sawEOF>>

\* ------------------------------------------------------------- consumer
\* idle.TimedOut delivers "" while the timer has not fired, else the reason
TimedOutValue == IF idleFired THEN "timeout" ELSE ""

\* the values the select of Read can leave in timedOut: the TimedOut case,
\* or, once ReqStop is closed, the halt case, which leaves it ""
SelectOutcomes == IF idleHalt THEN {"", TimedOutValue} ELSE {TimedOutValue}

\* Read: b.Cond.L.Lock(), n = 0, err = nil
Read_Lock ==
  /\ rpc \in {"idle", "done"} /\ mu = "free"
  /\ \E d \in 0..MaxDst : rdst' = d /\ rlen' = d
  /\ out' = <<>> /\ n' = 0 /\ err' = "nil"
  /\ mu' = "reader" /\ rpc' = "loop"
  /\ UNCHANGED <<trivars, certvars, keyvars, dialvars>>
  /\ UNCHANGED <<list, closed, waiting, ppc, parg, idleFired, idleHalt,
                 written, nwrites, delivered, eofCalled,
                 sawTimeout, resetTick, timeoutCalled, sawEOF>>

\* for len(buf) > 0: the destination is full (or empty from the start)
Read_exit ==
  /\ rpc = "loop" /\ rlen = 0
  /\ rpc' = "unlock"
  /\ UNCHANGED <<trivars, certvars, keyvars, dialvars>>
  /\ UNCHANGED <<list, closed, mu, waiting, ppc, parg, rdst, rlen, out, n,
                 err, idleFired, idleHalt, written, nwrites, delivered,
                 eofCalled, sawTimeout, resetTick, timeoutCalled, sawEOF>>

\* a copy that leaves the copied bytes in b.head
Read_copy_keepingHead ==
  /\ rpc = "loop" /\ rlen > 0
  /\ Len(list[1]) > 0
  /\ LET r == Min(rlen, Len(list[1])) IN
       /\ out' = out \o SubSeq(list[1], 1, r)
       /\ rlen' = rlen - r
       /\ n' = n + r
  /\ UNCHANGED <<trivars, certvars, keyvars, dialvars>>
  /\ UNCHANGED <<list, closed, mu, waiting, ppc, parg, rpc, rdst, err,
                 idleFired, idleHalt, written, nwrites, delivered, eofCalled,
                 sawTimeout, resetTick, timeoutCalled, sawEOF>>

\* if there is data in b.head, copy it
Read_copy ==
  /\ rpc = "loop" /\ rlen > 0
  /\ Len(list[1]) > 0
  /\ LET r == Min(rlen, Len(list[1])) IN
       /\ out' = out \o SubSeq(list[1], 1, r)
       /\ list' = [list EXCEPT ![1] = SubSeq(list[1], r + 1, Len(list[1]))]
       /\ rlen' = rlen - r
       /\ n' = n + r
  /\ UNCHANGED <<trivars, certvars, keyvars, dialvars>>
  /\ UNCHANGED <<closed, mu, waiting, ppc, parg, rpc, rdst, err, idleFired,
                 idleHalt, written, nwrites, delivered, eofCalled,
                 sawTimeout, resetTick, timeoutCalled, sawEOF>>

\* if there is a next buffer, make it the head
Read_next ==
  /\ rpc = "loop" /\ rlen > 0
  /\ Len(list[1]) = 0 /\ Len(list) > 1
  /\ list' = Tail(list)
  /\ UNCHANGED <<trivars, certvars, keyvars, dialvars>>
  /\ UNCHANGED <<closed, mu, waiting, ppc, parg, rpc, rdst, rlen, out, n, err,
                 idleFired, idleHalt, written, nwrites, delivered, eofCalled,
                 sawTimeout, resetTick, timeoutCalled, sawEOF>>

\* if at least one byte has been copied, return
Read_break ==
  /\ rpc = "loop" /\ rlen > 0
  /\ Len(list[1]) = 0 /\ Len(list) = 1
  /\ n > 0
  /\ rpc' = "unlock"
  /\ UNCHANGED <<trivars, certvars, keyvars, dialvars>>
  /\ UNCHANGED <<list, closed, mu, waiting, ppc, parg, rdst, rlen, out, n,
                 err, idleFired, idleHalt, written, nwrites, delivered,
                 eofCalled, sawTimeout, resetTick, timeoutCalled, sawEOF>>

\* a closed check made before the queued data is looked at
Read_closed_first ==
  /\ rpc = "loop" /\ rlen > 0
  /\ n = 0
  /\ closed
  /\ err' = "EOF"
  /\ rpc' = "unlock"
  /\ UNCHANGED <<trivars, certvars, keyvars, dialvars>>
  /\ UNCHANGED <<list, closed, mu, waiting, ppc, parg, rdst, rlen, out, n,
                 idleFired, idleHalt, written, nwrites, delivered, eofCalled,
                 sawTimeout, resetTick, timeoutCalled, sawEOF>>

\* nothing was read and nothing is outstanding: the buffer is closed
Read_closed ==
  /\ rpc = "loop" /\ rlen > 0
  /\ Len(list[1]) = 0 /\ Len(list) = 1
  /\ n = 0
  /\ closed
  /\ err' = "EOF"
  /\ rpc' = "unlock"
  /\ UNCHANGED <<trivars, certvars, keyvars, dialvars>>
  /\ UNCHANGED <<list, closed, mu, waiting, ppc, parg, rdst, rlen, out, n,
                 idleFired, idleHalt, written, nwrites, delivered, eofCalled,
                 sawTimeout, resetTick, timeoutCalled, sawEOF>>

\* a select reached without the n > 0 return before it
Read_select_afterCopy ==
  /\ rpc = "loop" /\ rlen > 0
  /\ Len(list[1]) = 0 /\ Len(list) = 1
  /\ ~closed
  /\ \E timedOut \in SelectOutcomes :
       IF timedOut # ""
         THEN /\ err' = "timeout"
              /\ rpc' = "unlock"
              /\ idleFired' \in {idleFired, FALSE}
         ELSE /\ rpc' = "wait"
              /\ UNCHANGED <<err, idleFired>>
  /\ timeoutCalled' = (timeoutCalled /\ idleFired')
  /\ UNCHANGED <<trivars, certvars, keyvars, dialvars>>
  /\ UNCHANGED <<list, closed, mu, waiting, ppc, parg, rdst, rlen, out, n,
                 idleHalt, written, nwrites, delivered, eofCalled,
                 sawTimeout, resetTick, sawEOF>>

\* a select whose halt case makes Read return a cancellation error
Read_select_haltReturns ==
  /\ rpc = "loop" /\ rlen > 0
  /\ Len(list[1]) = 0 /\ Len(list) = 1
  /\ n = 0
  /\ ~closed
  /\ \E timedOut \in SelectOutcomes :
       IF timedOut # ""
         THEN /\ err' = "timeout"
              /\ rpc' = "unlock"
              /\ idleFired' \in {idleFired, FALSE}
         ELSE IF idleHalt
           THEN /\ err' = "cancelled"
                /\ rpc' = "unlock"
                /\ UNCHANGED idleFired
           ELSE /\ rpc' = "wait"
                /\ UNCHANGED <<err, idleFired>>
  /\ timeoutCalled' = (timeoutCalled /\ idleFired')
  /\ UNCHANGED <<trivars, certvars, keyvars, dialvars>>
  /\ UNCHANGED <<list, closed, mu, waiting, ppc, parg, rdst, rlen, out, n,
                 idleHalt, written, nwrites, delivered, eofCalled,
                 sawTimeout, resetTick, sawEOF>>

\* the select on idle.TimedOut and idle.halt.ReqStop.Chan, then either
\* err = ErrTimeout or on to b.Cond.Wait()
Read_select ==
  /\ rpc = "loop" /\ rlen > 0
  /\ Len(list[1]) = 0 /\ Len(list) = 1
  /\ n = 0
  /\ ~closed
  /\ \E timedOut \in SelectOutcomes :
       IF timedOut # ""
         THEN /\ err' = "timeout"
              /\ rpc' = "unlock"
              /\ idleFired' \in {idleFired, FALSE}
         ELSE /\ rpc' = "wait"
              /\ UNCHANGED <<err, idleFired>>
  /\ timeoutCalled' = (timeoutCalled /\ idleFired')
  /\ UNCHANGED <<trivars, certvars, keyvars, dialvars>>
  /\ UNCHANGED <<list, closed, mu, waiting, ppc, parg, rdst, rlen, out, n,
                 idleHalt, written, nwrites, delivered, eofCalled,
                 sawTimeout, resetTick, sawEOF>>

\* b.Cond.Wait(): join the notify list and unlock
Read_Wait ==
  /\ rpc = "wait"
  /\ waiting' = TRUE
  /\ mu' = "free"
  /\ rpc' = "parked"
  /\ UNCHANGED <<trivars, certvars, keyvars, dialvars>>
  /\ UNCHANGED <<list, closed, ppc, parg, rdst, rlen, out, n, err, idleFired,
                 idleHalt, written, nwrites, delivered, eofCalled,
                 sawTimeout, resetTick, timeoutCalled, sawEOF>>

\* b.Cond.Wait(): signalled, lock again and go round the loop
Read_Wake ==
  /\ rpc = "parked" /\ ~waiting
  /\ mu = "free"
  /\ mu' = "reader"
  /\ rpc' = "loop"
  /\ UNCHANGED <<trivars, certvars, keyvars, dialvars>>
  /\ UNCHANGED <<list, closed, waiting, ppc, parg, rdst, rlen, out, n, err,
                 idleFired, idleHalt, written, nwrites, delivered, eofCalled,
                 sawTimeout, resetTick, timeoutCalled, sawEOF>>

\* the deferred function: b.Cond.L.Unlock()
Read_Unlock ==
  /\ rpc = "unlock"
  /\ mu' = "free"
  /\ rpc' = "reset"
  /\ UNCHANGED <<trivars, certvars, keyvars, dialvars>>
  /\ UNCHANGED <<list, closed, waiting, ppc, parg, rdst, rlen, out, n, err,
                 idleFired, idleHalt, written, nwrites, delivered, eofCalled,
                 sawTimeout, resetTick, timeoutCalled, sawEOF>>

\* a deferred function that calls b.idle.Reset() whatever err is
Read_Return_resettingAlways ==
  /\ rpc = "reset"
  /\ Reset
  /\ rpc' = "done"
  /\ delivered' = delivered \o out
  /\ sawTimeout' = (sawTimeout \/ err = "timeout")
  /\ sawEOF' = (sawEOF \/ err = "EOF")
  /\ UNCHANGED <<trivars, certvars, keyvars, dialvars>>
  /\ UNCHANGED <<list, closed, mu, waiting, ppc, parg, rdst, rlen, out, n,
                 err, idleHalt, written, nwrites, eofCalled>>

\* the deferred function: if err == nil, b.idle.Reset(); Read returns
Read_Return ==
  /\ rpc = "reset"
  /\ IF err = "nil"
       THEN Reset
       ELSE UNCHANGED <<idleFired, resetTick, timeoutCalled>>
  /\ rpc' = "done"
  /\ delivered' = delivered \o out
  /\ sawTimeout' = (sawTimeout \/ err = "timeout")
  /\ sawEOF' = (sawEOF \/ err = "EOF")
  /\ UNCHANGED <<trivars, certvars, keyvars, dialvars>>
  /\ UNCHANGED <<list, closed, mu, waiting, ppc, parg, rdst, rlen, out, n,
                 err, idleHalt, written, nwrites, eofCalled>>

Read ==
  \/ Read_Lock \/ Read_exit \/ Read_copy \/ Read_next \/ Read_break
  \/ Read_closed \/ Read_select \/ Read_Wait \/ Read_Wake
  \/ Read_Unlock \/ Read_Return

\* the steps of a Read that is under way (all but the call itself)
ReadStep ==
  \/ Read_exit \/ Read_copy \/ Read_next \/ Read_break
  \/ Read_closed \/ Read_select \/ Read_Wait \/ Read_Wake
  \/ Read_Unlock \/ Read_Return

\* ============================================================ Tricorder
\* strings are sequences of characters
Str_h22 == <<"h", ":", "2", "2">>
Str_22 == <<":", "2", "2">>
Str_h == <<"h">>
Str_hc == <<"h", ":">>
Str_localhost == <<"1", "2", "7", ".", "0", ".", "0", ".", "1">>

\* the host:port strings a reconnect request may carry
HostPorts == {Str_h22, Str_22, Str_h, Str_hc}

UHPs == [User : {<<"u">>}, HostPort : HostPorts]

\* no endpoint yet (t.uhp is nil)
NilUHP == [User |-> <<>>, HostPort |-> <<>>]

Digits == {"0", "1", "2", "3", "4", "5", "6", "7", "8", "9"}

DigitVal(c) ==
  CASE c = "0" -> 0 [] c = "1" -> 1 [] c = "2" -> 2 [] c = "3" -> 3
    [] c = "4" -> 4 [] c = "5" -> 5 [] c = "6" -> 6 [] c = "7" -> 7
    [] c = "8" -> 8 [] c = "9" -> 9

RECURSIVE DecVal(_)
DecVal(s) ==
  IF s = <<>> THEN 0
  ELSE 10 * DecVal(SubSeq(s, 1, Len(s) - 1)) + DigitVal(s[Len(s)])

\* strconv.ParseUint(s, 10, 16)
ParseUint16(s) ==
  IF s = <<>> \/ \E i \in 1..Len(s) : s[i] \notin Digits
    THEN [val |-> 0, err |-> "syntax"]
  ELSE IF DecVal(s) > 65535
    THEN [val |-> 65535, err |-> "range"]
  ELSE [val |-> DecVal(s), err |-> "nil"]

\* the index of the last c in s, 0 if there is none
LastIndex(s, c) ==
  LET I == {i \in 1..Len(s) : s[i] = c}
  IN IF I = {} THEN 0 ELSE CHOOSE i \in I : \A j \in I : j <= i

\* net.SplitHostPort, for addresses without brackets
NetSplitHostPort(hostport) ==
  LET i == LastIndex(hostport, ":")
      h == SubSeq(hostport, 1, i - 1)
  IN IF i = 0
       THEN [host |-> <<>>, port |-> <<>>, err |-> "missing port in address"]
     ELSE IF LastIndex(h, ":") # 0
       THEN [host |-> <<>>, port |-> <<>>, err |-> "too many colons in address"]
     ELSE [host |-> h, port |-> SubSeq(hostport, i + 1, Len(hostport)),
           err |-> "nil"]

splitHostPort(hostport) ==
  LET sp == NetSplitHostPort(hostport)
      host == IF sp.host = <<>> THEN Str_localhost ELSE sp.host
      pu == ParseUint16(sp.port)
  IN IF sp.err # "nil"
       THEN [host |-> sp.host, port |-> 0, err |-> "bad addr"]
     ELSE IF Len(sp.port) = 0
       THEN [host |-> host, port |-> 0, err |-> "no port found"]
     ELSE IF pu.err # "nil"
       THEN [host |-> host, port |-> 0, err |-> pu.err]
     ELSE [host |-> host, port |-> pu.val, err |-> "nil"]

\* a ticket as newGetChannelTicket makes it: done counts close(tk.done)
newGetChannelTicket == [done |-> 0, sshChannel |-> 0, err |-> "nil"]

\* the process is still running (an unrecovered panic ends it)
Alive == tpc # "crashed"

\* NewTricorder, with the loop started and the callers outside any call
NewTricorder ==
  /\ cli = 0 /\ nc = 0 /\ uhp = NilUHP
  /\ sshChannels = {}
  /\ reconnectNeededCh = <<>>
  /\ ReqStop = FALSE /\ Done = FALSE
  /\ tpc = "select" /\ panicking = FALSE

InitTri ==
  /\ NewTricorder
  /\ cfg \in [IdleTimeoutDur : {0, 5}]
  /\ conns = <<>> /\ chans = <<>>
  /\ dialled = [User |-> <<>>, host |-> <<>>, port |-> 0]
  /\ curTk = "none"
  /\ cpc = [c \in Callers |-> "idle"]
  /\ tk = [c \in Callers |-> newGetChannelTicket]
  /\ cret = [c \in Callers |-> [sshChannel |-> 0, err |-> "nil"]]
  /\ nreq = 0 /\ ndial = 0 /\ dialFailed = FALSE

\* a closeChannels that closes the channels and forgets their cancel handles
closeChannels_withoutCancel ==
  /\ chans' = [k \in DOMAIN chans |->
                 IF k \in sshChannels
                   THEN [chans[k] EXCEPT !.closed = TRUE]
                   ELSE chans[k]]
  /\ sshChannels' = {}

\* closeChannels: Close and cancel every channel of the map, then a new map
closeChannels ==
  /\ chans' = [k \in DOMAIN chans |->
                 IF k \in sshChannels
                   THEN [chans[k] EXCEPT !.closed = TRUE, !.cancelled = TRUE]
                   ELSE chans[k]]
  /\ sshChannels' = {}

\* ------------------------------------------------- the supervisor loop
\* a halt case that drops the client and the transport before it returns
Loop_ReqStop_releasing ==
  /\ tpc = "select" /\ ReqStop
  /\ cli' = 0 /\ nc' = 0
  /\ tpc' = "deferClose"
  /\ UNCHANGED <<panicking, uhp, sshChannels, reconnectNeededCh, ReqStop,
                 Done, cfg, conns, dialled, chans, curTk, cpc, tk, cret, nreq,
                 ndial, dialFailed>>
  /\ UNCHANGED <<bufvars, certvars, keyvars, dialvars>>

\* case <-t.Halt.ReqStopChan(): return
Loop_ReqStop ==
  /\ tpc = "select" /\ ReqStop
  /\ tpc' = "deferClose"
  /\ UNCHANGED <<panicking, cli, nc, uhp, sshChannels, reconnectNeededCh,
                 ReqStop, Done, cfg, conns, dialled, chans, curTk, cpc, tk,
                 cret, nreq, ndial, dialFailed>>
  /\ UNCHANGED <<bufvars, certvars, keyvars, dialvars>>

\* a reconnect case that keeps the channels of the client it drops
Loop_reconnectNeeded_keepingChannels ==
  /\ tpc = "select" /\ reconnectNeededCh # <<>>
  /\ uhp' = Head(reconnectNeededCh)
  /\ reconnectNeededCh' = Tail(reconnectNeededCh)
  /\ cli' = 0
  /\ nc' = 0
  /\ tpc' = "dial"
  /\ ndial' = 0 /\ dialFailed' = FALSE
  /\ UNCHANGED <<panicking, ReqStop, Done, cfg, conns, dialled, curTk, cpc,
                 tk, cret, nreq, sshChannels, chans>>
  /\ UNCHANGED <<bufvars, certvars, keyvars, dialvars>>

\* case uhp := <-t.reconnectNeededCh: up to the call of the dial helper
Loop_reconnectNeeded ==
  /\ tpc = "select" /\ reconnectNeededCh # <<>>
  /\ uhp' = Head(reconnectNeededCh)
  /\ reconnectNeededCh' = Tail(reconnectNeededCh)
  /\ closeChannels
  /\ cli' = 0
  /\ nc' = 0
  /\ tpc' = "dial"
  /\ ndial' = 0 /\ dialFailed' = FALSE
  /\ UNCHANGED <<panicking, ReqStop, Done, cfg, conns, dialled, curTk, cpc,
                 tk, cret, nreq>>
  /\ UNCHANGED <<bufvars, certvars, keyvars, dialvars>>

\* a dial helper that drops the error and goes back to the loop
helperNewClientConnect_swallowing ==
  /\ tpc = "dial"
  /\ LET sp == splitHostPort(uhp.HostPort) IN
       IF sp.err # "nil"
         THEN /\ tpc' = "select"
              /\ dialFailed' = TRUE
              /\ UNCHANGED <<cli, nc, conns, dialled, ndial, panicking>>
         ELSE \E ok \in BOOLEAN :
              /\ ndial' = ndial + 1
              /\ IF ok
                   THEN /\ conns' = Append(conns, [closed |-> FALSE])
                        /\ dialled' = [User |-> uhp.User, host |-> sp.host,
                                       port |-> sp.port]
                        /\ cli' = Len(conns) + 1
                        /\ nc' = Len(conns) + 1
                        /\ tpc' = "select"
                        /\ UNCHANGED <<panicking, dialFailed>>
                   ELSE /\ tpc' = "select"
                        /\ dialFailed' = TRUE
                        /\ UNCHANGED <<cli, nc, conns, dialled, panicking>>
  /\ UNCHANGED <<uhp, sshChannels, reconnectNeededCh, ReqStop, Done, cfg,
                 chans, curTk, cpc, tk, cret, nreq>>
  /\ UNCHANGED <<bufvars, certvars, keyvars, dialvars>>

\* helperNewClientConnect: splitHostPort and SSHConnect, panic on error
helperNewClientConnect ==
  /\ tpc = "dial"
  /\ LET sp == splitHostPort(uhp.HostPort) IN
       IF sp.err # "nil"
         THEN \* panicOn(err)
              /\ panicking' = TRUE /\ tpc' = "deferClose"
              /\ dialFailed' = TRUE
              /\ UNCHANGED <<cli, nc, conns, dialled, ndial>>
         ELSE \E ok \in BOOLEAN :
              /\ ndial' = ndial + 1
              /\ IF ok
                   THEN /\ conns' = Append(conns, [closed |-> FALSE])
                        /\ dialled' = [User |-> uhp.User, host |-> sp.host,
                                       port |-> sp.port]
                        /\ cli' = Len(conns) + 1
                        /\ nc' = Len(conns) + 1
                        /\ tpc' = "select"
                        /\ UNCHANGED <<panicking, dialFailed>>
                   ELSE \* panic(err)
                        /\ panicking' = TRUE /\ tpc' = "deferClose"
                        /\ dialFailed' = TRUE
                        /\ UNCHANGED <<cli, nc, conns, dialled>>
  /\ UNCHANGED <<uhp, sshChannels, reconnectNeededCh, ReqStop, Done, cfg,
                 chans, curTk, cpc, tk, cret, nreq>>
  /\ UNCHANGED <<bufvars, certvars, keyvars, dialvars>>

\* case t.getCliCh <- t.cli, received by the caller c inside Cli(), which
\* returns with it (the handle itself is not kept in the model)
Loop_getCli(c) ==
  /\ tpc = "select" /\ cpc[c] = "Cli"
  /\ cret' = cret
  /\ cpc' = [cpc EXCEPT ![c] = "idle"]
  /\ UNCHANGED <<tpc, panicking, cli, nc, uhp, sshChannels, reconnectNeededCh,
                 ReqStop, Done, cfg, conns, dialled, chans, curTk, tk, nreq,
                 ndial, dialFailed>>
  /\ UNCHANGED <<bufvars, certvars, keyvars, dialvars>>

\* case t.getNcCh <- t.nc, received by the caller c inside Nc(), which
\* returns with it (the handle itself is not kept in the model)
Loop_getNc(c) ==
  /\ tpc = "select" /\ cpc[c] = "Nc"
  /\ cret' = cret
  /\ cpc' = [cpc EXCEPT ![c] = "idle"]
  /\ UNCHANGED <<tpc, panicking, cli, nc, uhp, sshChannels, reconnectNeededCh,
                 ReqStop, Done, cfg, conns, dialled, chans, curTk, tk, nreq,
                 ndial, dialFailed>>
  /\ UNCHANGED <<bufvars, certvars, keyvars, dialvars>>

\* case tk := <-t.getChannelCh, sent by the caller c inside SSHChannel()
Loop_getChannel(c) ==
  /\ tpc = "select" /\ cpc[c] = "send"
  /\ curTk' = c
  /\ cpc' = [cpc EXCEPT ![c] = "wait"]
  /\ tpc' = "getChannel"
  /\ UNCHANGED <<panicking, cli, nc, uhp, sshChannels, reconnectNeededCh,
                 ReqStop, Done, cfg, conns, dialled, chans, tk, cret, nreq,
                 ndial, dialFailed>>
  /\ UNCHANGED <<bufvars, certvars, keyvars, dialvars>>

\* helperGetChannel: t.cli.OpenChannel with a deadline, register, close(done)
helperGetChannel ==
  /\ tpc = "getChannel"
  /\ IF cli = 0
       THEN \* t.cli is nil: the call dereferences it and panics
            /\ panicking' = TRUE /\ tpc' = "deferClose"
            /\ UNCHANGED <<sshChannels, chans, tk, curTk>>
       ELSE /\ \E ok \in BOOLEAN :
                 IF ok
                   THEN /\ chans' = Append(chans,
                              [cli |-> cli, closed |-> FALSE,
                               cancelled |-> FALSE,
                               idle |-> IF cfg.IdleTimeoutDur > 0
                                          THEN cfg.IdleTimeoutDur ELSE 0])
                        /\ sshChannels' = sshChannels \cup {Len(chans) + 1}
                        /\ tk' = [tk EXCEPT ![curTk] =
                                   [done |-> @.done + 1,
                                    sshChannel |-> Len(chans) + 1,
                                    err |-> "nil"]]
                   ELSE /\ tk' = [tk EXCEPT ![curTk] =
                                   [done |-> @.done + 1, sshChannel |-> 0,
                                    err |-> "open failed"]]
                        /\ UNCHANGED <<sshChannels, chans>>
            /\ curTk' = "none"
            /\ tpc' = "select"
            /\ UNCHANGED panicking
  /\ UNCHANGED <<cli, nc, uhp, reconnectNeededCh, ReqStop, Done, cfg, conns,
                 dialled, cpc, cret, nreq, ndial, dialFailed>>
  /\ UNCHANGED <<bufvars, certvars, keyvars, dialvars>>

\* the deferred function of the loop: t.closeChannels()
Defer_closeChannels ==
  /\ tpc = "deferClose"
  /\ closeChannels
  /\ tpc' = "deferDone"
  /\ UNCHANGED <<panicking, cli, nc, uhp, reconnectNeededCh, ReqStop, Done,
                 cfg, conns, dialled, curTk, cpc, tk, cret, nreq, ndial,
                 dialFailed>>
  /\ UNCHANGED <<bufvars, certvars, keyvars, dialvars>>

\* the deferred function of the loop: t.Halt.MarkDone(); the goroutine ends,
\* and with it the process when it is unwinding a panic
Defer_MarkDone ==
  /\ tpc = "deferDone"
  /\ Done' = TRUE
  /\ tpc' = IF panicking THEN "crashed" ELSE "exited"
  /\ UNCHANGED <<panicking, cli, nc, uhp, sshChannels, reconnectNeededCh,
                 ReqStop, cfg, conns, dialled, chans, curTk, cpc, tk, cret,
                 nreq, ndial, dialFailed>>
  /\ UNCHANGED <<bufvars, certvars, keyvars, dialvars>>

\* ------------------------------------------------------------- callers
\* SSHChannel: tk := newGetChannelTicket(); t.getChannelCh <- tk (blocks)
SSHChannel_Call(c) ==
  /\ Alive /\ cpc[c] = "idle"
  /\ Len(chans) + Cardinality({d \in Callers : cpc[d] \in {"send", "wait"}})
       < MaxChans
  /\ tk' = [tk EXCEPT ![c] = newGetChannelTicket]
  /\ cpc' = [cpc EXCEPT ![c] = "send"]
  /\ cret' = cret
  /\ UNCHANGED <<tpc, panicking, cli, nc, uhp, sshChannels, reconnectNeededCh,
                 ReqStop, Done, cfg, conns, dialled, chans, curTk, nreq,
                 ndial, dialFailed>>
  /\ UNCHANGED <<bufvars, certvars, keyvars, dialvars>>

\* SSHChannel: <-tk.done; return tk.sshChannel, tk.err
SSHChannel_Return(c) ==
  /\ Alive /\ cpc[c] = "wait"
  /\ tk[c].done > 0
  /\ cret' = [cret EXCEPT ![c].sshChannel = tk[c].sshChannel,
                          ![c].err = tk[c].err]
  /\ cpc' = [cpc EXCEPT ![c] = "idle"]
  /\ tk' = [tk EXCEPT ![c] = newGetChannelTicket]
  /\ UNCHANGED <<tpc, panicking, cli, nc, uhp, sshChannels, reconnectNeededCh,
                 ReqStop, Done, cfg, conns, dialled, chans, curTk, nreq,
                 ndial, dialFailed>>
  /\ UNCHANGED <<bufvars, certvars, keyvars, dialvars>>

\* Cli: cli = <-t.getCliCh (blocks)
Cli_Call(c) ==
  /\ Alive /\ cpc[c] = "idle"
  /\ cpc' = [cpc EXCEPT ![c] = "Cli"]
  /\ cret' = cret
  /\ UNCHANGED <<tpc, panicking, cli, nc, uhp, sshChannels, reconnectNeededCh,
                 ReqStop, Done, cfg, conns, dialled, chans, curTk, tk, nreq,
                 ndial, dialFailed>>
  /\ UNCHANGED <<bufvars, certvars, keyvars, dialvars>>

\* Nc: nc = <-t.getNcCh (blocks)
Nc_Call(c) ==
  /\ Alive /\ cpc[c] = "idle"
  /\ cpc' = [cpc EXCEPT ![c] = "Nc"]
  /\ cret' = cret
  /\ UNCHANGED <<tpc, panicking, cli, nc, uhp, sshChannels, reconnectNeededCh,
                 ReqStop, Done, cfg, conns, dialled, chans, curTk, tk, nreq,
                 ndial, dialFailed>>
  /\ UNCHANGED <<bufvars, certvars, keyvars, dialvars>>

\* the caller closes the channel SSHChannel returned to it
Channel_Close(c) ==
  /\ Alive /\ cpc[c] = "idle"
  /\ cret[c].sshChannel # 0
  /\ ~chans[cret[c].sshChannel].closed
  /\ chans' = [chans EXCEPT ![cret[c].sshChannel].closed = TRUE]
  /\ UNCHANGED <<tpc, panicking, cli, nc, uhp, sshChannels, reconnectNeededCh,
                 ReqStop, Done, cfg, conns, dialled, curTk, cpc, tk, cret,
                 nreq, ndial, dialFailed>>
  /\ UNCHANGED <<bufvars, certvars, keyvars, dialvars>>

\* ClientReconnectNeededTower publishes an endpoint to the subscribed channel
ReconnectNeeded(u) ==
  /\ Alive /\ Len(reconnectNeededCh) < 1
  /\ nreq < MaxReconnects
  /\ reconnectNeededCh' = Append(reconnectNeededCh, u)
  /\ nreq' = nreq + 1
  /\ UNCHANGED <<tpc, panicking, cli, nc, uhp, sshChannels, ReqStop, Done,
                 cfg, conns, dialled, chans, curTk, cpc, tk, cret, ndial,
                 dialFailed>>
  /\ UNCHANGED <<bufvars, certvars, keyvars, dialvars>>

\* t.Halt.RequestStop()
Halt_RequestStop ==
  /\ Alive /\ ~ReqStop
  /\ ReqStop' = TRUE
  /\ UNCHANGED <<tpc, panicking, cli, nc, uhp, sshChannels, reconnectNeededCh,
                 Done, cfg, conns, dialled, chans, curTk, cpc, tk, cret, nreq,
                 ndial, dialFailed>>
  /\ UNCHANGED <<bufvars, certvars, keyvars, dialvars>>

startReconnectLoop ==
  \/ Loop_ReqStop \/ Loop_reconnectNeeded \/ helperNewClientConnect
  \/ (\E c \in Callers : Loop_getCli(c))
  \/ (\E c \in Callers : Loop_getNc(c))
  \/ (\E c \in Callers : Loop_getChannel(c))
  \/ helperGetChannel \/ Defer_closeChannels \/ Defer_MarkDone

NextTri ==
  \/ Loop_ReqStop
  \/ Loop_reconnectNeeded
  \/ helperNewClientConnect
  \/ \E c \in Callers : Loop_getCli(c)
  \/ \E c \in Callers : Loop_getNc(c)
  \/ \E c \in Callers : Loop_getChannel(c)
  \/ helperGetChannel
  \/ Defer_closeChannels
  \/ Defer_MarkDone
  \/ \E c \in Callers : SSHChannel_Call(c)
  \/ \E c \in Callers : SSHChannel_Return(c)
  \/ \E c \in Callers : Cli_Call(c)
  \/ \E c \in Callers : Nc_Call(c)
  \/ \E c \in Callers : Channel_Close(c)
  \/ \E u \in UHPs : ReconnectNeeded(u)
  \/ Halt_RequestStop

\* ======================================================= CertChecker
\* CertTimeInfinity: a ValidBefore with all TimeWidth bits set
CertTimeInfinity == 2^TimeWidth - 1

\* testPublicKeys, testSigners
Keys == {"rsa", "ecdsa"}

\* Certificate.CertType: the zero value, UserCert, HostCert
CertTypes == {"unset", "UserCert", "HostCert"}

\* Certificate.ValidPrincipals of the test certificates
PrincipalSets ==
  {{}, {"user"}, {"hostname", "hostname.domain", "otherhost"}}

\* the critical options the checker understands
SupportedCriticalOptions == {"force-command", "source-address"}

\* Certificate.CriticalOptions: the names
OptionSets ==
  {{}, {"force-command", "source-address"}, {"force-command", "verify-pin"}}

\* the certificates presented: SignedBy is the key whose signer made
\* Signature, SignatureKey the key the certificate names for it
Certificates ==
  [ValidPrincipals : PrincipalSets, Key : {"rsa"},
   ValidAfter : {0, 50}, ValidBefore : {100, CertTimeInfinity},
   CertType : CertTypes, SignatureKey : Keys, SignedBy : Keys,
   CriticalOptions : OptionSets]

\* the times CertChecker.Clock returns
Times == {25, 50, 99, 100, 125, CertTimeInfinity}

\* the addresses dialed
Addrs == [host : {"hostname", "otherhost", "lasthost"}, port : {22}]

\* the logins asked for
Logins == {"user", "root"}

\* the signature verifies against SignatureKey
SignatureVerifies(c) == c.SignedBy = c.SignatureKey

\* checker.IsUserAuthority of the tests
IsUserAuthority(k) == k = "ecdsa"

\* checker.IsHostAuthority of TestHostKeyCert
IsHostAuthority(k, a) == a = [host |-> "hostname", port |-> 22] /\ k = "ecdsa"

\* the principal is listed, or no principal is listed
PrincipalAllowed(p, c) == c.ValidPrincipals = {} \/ p \in c.ValidPrincipals

\* a window whose upper end is part of it
TimeValid_inclusive(t, c) ==
  /\ c.ValidAfter <= t
  /\ c.ValidBefore = CertTimeInfinity \/ t <= c.ValidBefore

\* ValidAfter <= t < ValidBefore, CertTimeInfinity having no upper end
TimeValid(t, c) ==
  /\ c.ValidAfter <= t
  /\ c.ValidBefore = CertTimeInfinity \/ t < c.ValidBefore

\* every critical option is one the checker understands
OptionsUnderstood(c) == c.CriticalOptions \subseteq SupportedCriticalOptions

\* CertChecker.CheckCert(principal, cert) at clock time t
CheckCert(p, c, t) ==
  IF ~OptionsUnderstood(c) THEN "unsupported critical option"
  ELSE IF ~PrincipalAllowed(p, c) THEN "principal not valid"
  ELSE IF ~TimeValid(t, c) THEN "not valid at this time"
  ELSE IF ~SignatureVerifies(c) THEN "signature not verified"
  ELSE "nil"

\* a host key check that leaves the principal to the authority
CheckHostKey_anyPrincipal(a, c, t) ==
  IF c.CertType # "HostCert" THEN "not a host certificate"
  ELSE IF ~IsHostAuthority(c.SignatureKey, a) THEN "no authority for host"
  ELSE CheckCert("", [c EXCEPT !.ValidPrincipals = {}], t)

\* CertChecker.CheckHostKey(addr, remote, key) for a certificate key
CheckHostKey(a, c, t) ==
  IF c.CertType # "HostCert" THEN "not a host certificate"
  ELSE IF ~IsHostAuthority(c.SignatureKey, a) THEN "no authority for host"
  ELSE CheckCert(a.host, c, t)

\* the expectations of TestValidateCertTime
TestValidateCertTime ==
  [t \in {25, 50, 99, 100, 125} |-> t \in {50, 99}]

\* the certificate of TestHostKeyCert, signed with testSigners["ecdsa"]
TestHostKeyCert ==
  [ValidPrincipals |-> {"hostname", "hostname.domain", "otherhost"},
   Key |-> "rsa", ValidAfter |-> 0, ValidBefore |-> CertTimeInfinity,
   CertType |-> "HostCert", SignatureKey |-> "ecdsa", SignedBy |-> "ecdsa",
   CriticalOptions |-> {}]

InitCert ==
  /\ cert \in Certificates
  /\ clock \in Times
  /\ principal \in Logins
  /\ addr \in Addrs
  /\ certpc = "start"
  /\ checkErr = "none" /\ clientErr = "none" /\ serverErr = "none"

\* no certificate is being checked
RestCert ==
  /\ cert = TestHostKeyCert
  /\ clock = 50
  /\ principal = "user"
  /\ addr = [host |-> "hostname", port |-> 22]
  /\ certpc = "start"
  /\ checkErr = "none" /\ clientErr = "none" /\ serverErr = "none"

\* checker.CheckCert(principal, cert)
CheckCert_Call ==
  /\ certpc = "start"
  /\ checkErr' = CheckCert(principal, cert, clock)
  /\ certpc' = "checked"
  /\ UNCHANGED <<cert, clock, principal, addr, clientErr, serverErr>>
  /\ UNCHANGED <<bufvars, trivars, keyvars, dialvars>>

\* NewClientConn(addr) with HostKeyCallback CheckHostKey against
\* NewServerConn with the certificate as host key: the client ends the
\* handshake when the callback fails, and the server fails with it
Handshake ==
  /\ certpc = "start"
  /\ clientErr' = CheckHostKey(addr, cert, clock)
  /\ serverErr' = IF clientErr' = "nil" THEN "nil" ELSE "handshake failed"
  /\ certpc' = "dialed"
  /\ UNCHANGED <<cert, clock, principal, addr, checkErr>>
  /\ UNCHANGED <<bufvars, trivars, keyvars, dialvars>>

NextCert == CheckCert_Call \/ Handshake

\* ===================================== ParseAuthorizedKey, Marshal
\* algorithm names of an authorized-keys line
CertAlgoRSAv01 == "ssh-rsa-cert-v01@openssh.com"
KeyAlgoRSA == "ssh-rsa"
Algos == {CertAlgoRSAv01, KeyAlgoRSA}

\* the names of critical options and extensions, in lexical order
TupleNames ==
  <<"force-command", "permit-pty", "permit-user-rc", "source-address">>

\* the place of a name in the lexical order
Rank(nm) == CHOOSE k \in 1..Len(TupleNames) : TupleNames[k] = nm

\* an option in wire form: its name and its data, which is empty or holds
\* one string
CriticalTuples ==
  [Name : {"force-command"}, Data : {<<>>, <<"/bin/sleep">>}]
    \cup [Name : {"source-address"}, Data : {<<>>, <<"192.168.1.0/24">>}]

ExtensionTuples == [Name : {"permit-pty", "permit-user-rc"}, Data : {<<>>}]

SeqsUpTo(S, k) == UNION {[1..m -> S] : m \in 0..k}

\* what the base64 field decodes to: a certificate, a plain key, or nothing
\* that is a key
CertBlobs ==
  [Type : {CertAlgoRSAv01}, KeyId : {"test"},
   CriticalOptions : SeqsUpTo(CriticalTuples, MaxTuples),
   Extensions : SeqsUpTo(ExtensionTuples, MaxTuples)]

KeyBlob ==
  [Type |-> KeyAlgoRSA, KeyId |-> "", CriticalOptions |-> <<>>,
   Extensions |-> <<>>]

BadBlob ==
  [Type |-> "", KeyId |-> "", CriticalOptions |-> <<>>, Extensions |-> <<>>]

\* authorized-keys lines: [options] <algo> <base64-blob> [comment] [\n]
Lines ==
  [options : {<<>>, <<"no-pty">>},
   algo : Algos \cup {"ssh-foo"},
   blob : CertBlobs \cup {KeyBlob, BadBlob},
   comment : {<<>>, <<"user@host">>},
   newline : BOOLEAN]

\* a line like exampleSSHCertWithOptions, with two of its extensions
certWithOptions ==
  [options |-> <<>>, algo |-> CertAlgoRSAv01,
   blob |-> [Type |-> CertAlgoRSAv01, KeyId |-> "test",
             CriticalOptions |->
               << [Name |-> "force-command", Data |-> <<"/bin/sleep">>],
                  [Name |-> "source-address",
                   Data |-> <<"192.168.1.0/24">>] >>,
             Extensions |->
               << [Name |-> "permit-pty", Data |-> <<>>],
                  [Name |-> "permit-user-rc", Data |-> <<>>] >>],
   comment |-> <<>>, newline |-> FALSE]

\* the value of an option from its data: empty data is the empty string
DecodeValue(d) == IF d = <<>> THEN "" ELSE d[1]

\* data that holds the string also when the string is empty
EncodeValue_alwaysInner(v) == <<v>>

\* the data of an option from its value: the empty string is empty data
EncodeValue(v) == IF v = "" THEN <<>> ELSE <<v>>

\* the tuples are in lexical order of their names, no name twice
InOrder(ts) ==
  \A k \in 1..(Len(ts) - 1) : Rank(ts[k].Name) < Rank(ts[k + 1].Name)

\* parseTuples: the map from name to value
parseTuples(ts) ==
  [nm \in {ts[k].Name : k \in 1..Len(ts)} |->
     DecodeValue((CHOOSE t \in {ts[k] : k \in 1..Len(ts)} : t.Name = nm).Data)]

\* marshalTuples: the tuples of a map, in lexical order of the names
marshalTuples(m) ==
  LET sn == SelectSeq(TupleNames, LAMBDA x : x \in DOMAIN m)
  IN  [k \in 1..Len(sn) |-> [Name |-> sn[k], Data |-> EncodeValue(m[sn[k]])]]

\* no key
NilKey ==
  [Type |-> "", KeyId |-> "", CriticalOptions |-> <<>>, Extensions |-> <<>>]

\* ParsePublicKey on the decoded blob: a Certificate for a certificate
\* algorithm, the key itself for a plain one
ParsePublicKey(b) ==
  IF b.Type = CertAlgoRSAv01
    THEN IF InOrder(b.CriticalOptions) /\ InOrder(b.Extensions)
           THEN [key |-> [Type |-> b.Type, KeyId |-> b.KeyId,
                          CriticalOptions |-> parseTuples(b.CriticalOptions),
                          Extensions |-> parseTuples(b.Extensions)],
                 err |-> "nil"]
           ELSE [key |-> NilKey, err |-> "format"]
  ELSE IF b.Type = KeyAlgoRSA
    THEN [key |-> [Type |-> b.Type, KeyId |-> "", CriticalOptions |-> <<>>,
                   Extensions |-> <<>>],
          err |-> "nil"]
  ELSE [key |-> NilKey, err |-> "format"]

\* ParseAuthorizedKey(in): key, comment, options, err
ParseAuthorizedKey(l) ==
  IF l.algo \notin Algos
    THEN [key |-> NilKey, comment |-> <<>>, options |-> <<>>,
          err |-> "unknown algorithm"]
  ELSE IF ParsePublicKey(l.blob).err # "nil" \/ l.blob.Type # l.algo
    THEN [key |-> NilKey, comment |-> <<>>, options |-> <<>>,
          err |-> "format"]
  ELSE [key |-> ParsePublicKey(l.blob).key, comment |-> l.comment,
        options |-> l.options, err |-> "nil"]

\* PublicKey.Marshal: the blob of a key
Marshal(k) ==
  [Type |-> k.Type, KeyId |-> k.KeyId,
   CriticalOptions |-> marshalTuples(k.CriticalOptions),
   Extensions |-> marshalTuples(k.Extensions)]

\* MarshalAuthorizedKey(key): "<algo> <base64-blob>\n"
MarshalAuthorizedKey(k) ==
  [options |-> <<>>, algo |-> k.Type, blob |-> Marshal(k),
   comment |-> <<>>, newline |-> TRUE]

\* marshaled[:len(marshaled)-1]
TrimNewline(l) == [l EXCEPT !.newline = FALSE]

\* no line
NoLine ==
  [options |-> <<>>, algo |-> "", blob |-> BadBlob, comment |-> <<>>,
   newline |-> FALSE]

InitKey ==
  /\ line \in Lines
  /\ pkey = NilKey /\ comment = <<>> /\ options = <<>> /\ perr = "none"
  /\ marshaled = NoLine
  /\ keypc = "start"

\* no line is being parsed
RestKey ==
  /\ line = NoLine
  /\ pkey = NilKey /\ comment = <<>> /\ options = <<>> /\ perr = "none"
  /\ marshaled = NoLine
  /\ keypc = "start"

\* key, comment, options, rest, err := ParseAuthorizedKey(authKeyBytes)
Parse ==
  /\ keypc = "start"
  /\ pkey' = ParseAuthorizedKey(line).key
  /\ comment' = ParseAuthorizedKey(line).comment
  /\ options' = ParseAuthorizedKey(line).options
  /\ perr' = ParseAuthorizedKey(line).err
  /\ keypc' = "parsed"
  /\ UNCHANGED <<line, marshaled>>
  /\ UNCHANGED <<bufvars, trivars, certvars, dialvars>>

\* marshaled := MarshalAuthorizedKey(key)
MarshalKey ==
  /\ keypc = "parsed" /\ perr = "nil"
  /\ marshaled' = MarshalAuthorizedKey(pkey)
  /\ keypc' = "marshaled"
  /\ UNCHANGED <<line, pkey, comment, options, perr>>
  /\ UNCHANGED <<bufvars, trivars, certvars, dialvars>>

NextKey == Parse \/ MarshalKey

\* ============================================================== Dial
\* the host keys a server (or an attacker in its place) presents
ServerKeys == {"k1", "k2"}

\* Dial has returned nothing yet
NoReturn == [nc |-> 0, sshClientConn |-> 0, err |-> "none"]

\* cfg.SSHConnect(dc.KnownHosts, ...) with cfg.AddIfNotKnown = a against a
\* server presenting key k: the attempt can fail on the network or on
\* authentication; a known key connects; an unknown key is stored when a
\* is set, with the error that says "Re-run without -new now", and is
\* refused when a is not set; a set flag that is not needed may be
\* reported with the same error
SSHConnectOutcomes(a, kh, k) ==
  {[err |-> "other", stores |-> FALSE]}
    \cup (IF k \in kh
            THEN {[err |-> "nil", stores |-> FALSE]}
                   \cup (IF a THEN {[err |-> "rerun", stores |-> FALSE]}
                              ELSE {})
            ELSE IF a THEN {[err |-> "rerun", stores |-> TRUE]}
                      ELSE {})

InitDial ==
  /\ dc \in [TofuAddIfNotKnown : BOOLEAN]
  /\ AddIfNotKnown = FALSE /\ tryCount = 0 /\ pass = 0
  /\ sshClientConn = 0 /\ derr = "nil" /\ dpc = "idle"
  /\ serverKey \in ServerKeys
  /\ knownHosts \in SUBSET ServerKeys
  /\ dconns = <<>> /\ attempts = <<>> /\ storedAt = 0
  /\ nstored = 0 /\ ncalls = 0
  /\ dret = NoReturn

\* Dial is not called
RestDial ==
  /\ dc = [TofuAddIfNotKnown |-> FALSE]
  /\ AddIfNotKnown = FALSE /\ tryCount = 0 /\ pass = 0
  /\ sshClientConn = 0 /\ derr = "nil" /\ dpc = "idle"
  /\ serverKey = "k1"
  /\ knownHosts = {}
  /\ dconns = <<>> /\ attempts = <<>> /\ storedAt = 0
  /\ nstored = 0 /\ ncalls = 0
  /\ dret = NoReturn

\* Dial, up to the loop: cfg.AddIfNotKnown = dc.TofuAddIfNotKnown, tryCount
Dial_Call ==
  /\ dpc \in {"idle", "returned"}
  /\ ncalls < MaxDials
  /\ AddIfNotKnown' = dc.TofuAddIfNotKnown
  /\ tryCount' = IF dc.TofuAddIfNotKnown THEN 2 ELSE 1
  /\ pass' = 0
  /\ sshClientConn' = 0 /\ derr' = "nil"
  /\ dconns' = <<>> /\ attempts' = <<>> /\ storedAt' = 0
  /\ ncalls' = ncalls + 1
  /\ dret' = NoReturn
  /\ dpc' = "loop"
  /\ UNCHANGED <<dc, serverKey, knownHosts, nstored>>
  /\ UNCHANGED <<bufvars, trivars, certvars, keyvars>>

\* a pass of the loop that goes on to the next pass with the flags as set
Dial_SSHConnect_keepingTofu ==
  /\ dpc = "loop" /\ pass < tryCount
  /\ \E r \in SSHConnectOutcomes(AddIfNotKnown, knownHosts, serverKey) :
       /\ attempts' = Append(attempts, AddIfNotKnown)
       /\ knownHosts' = IF r.stores THEN knownHosts \cup {serverKey}
                                    ELSE knownHosts
       /\ nstored' = IF r.stores THEN nstored + 1 ELSE nstored
       /\ storedAt' = IF r.stores THEN Len(attempts) + 1 ELSE storedAt
       /\ derr' = r.err
       /\ IF r.err = "nil"
            THEN /\ dconns' = Append(dconns, [closed |-> FALSE])
                 /\ sshClientConn' = Len(dconns) + 1
            ELSE /\ sshClientConn' = 0
                 /\ UNCHANGED dconns
       /\ pass' = pass + 1 /\ dpc' = "loop"
       /\ UNCHANGED <<AddIfNotKnown, dc, dret>>
  /\ UNCHANGED <<tryCount, serverKey, ncalls>>
  /\ UNCHANGED <<bufvars, trivars, certvars, keyvars>>

\* one pass of the loop: SSHConnect, and on the error that says "Re-run
\* without -new now" either clear both flags and go on, or return the error
Dial_SSHConnect ==
  /\ dpc = "loop" /\ pass < tryCount
  /\ \E r \in SSHConnectOutcomes(AddIfNotKnown, knownHosts, serverKey) :
       /\ attempts' = Append(attempts, AddIfNotKnown)
       /\ knownHosts' = IF r.stores THEN knownHosts \cup {serverKey}
                                    ELSE knownHosts
       /\ nstored' = IF r.stores THEN nstored + 1 ELSE nstored
       /\ storedAt' = IF r.stores THEN Len(attempts) + 1 ELSE storedAt
       /\ derr' = r.err
       /\ IF r.err = "nil"
            THEN /\ dconns' = Append(dconns, [closed |-> FALSE])
                 /\ sshClientConn' = Len(dconns) + 1
            ELSE /\ sshClientConn' = 0
                 /\ UNCHANGED dconns
       /\ IF r.err = "rerun"
            THEN IF AddIfNotKnown
                   THEN /\ AddIfNotKnown' = FALSE
                        /\ dc' = [dc EXCEPT !.TofuAddIfNotKnown = FALSE]
                        /\ pass' = pass + 1 /\ dpc' = "loop"
                        /\ UNCHANGED dret
                   ELSE /\ dret' = [nc |-> 0, sshClientConn |-> 0,
                                    err |-> r.err]
                        /\ dpc' = "returned"
                        /\ UNCHANGED <<AddIfNotKnown, dc, pass>>
            ELSE /\ pass' = pass + 1 /\ dpc' = "loop"
                 /\ UNCHANGED <<AddIfNotKnown, dc, dret>>
  /\ UNCHANGED <<tryCount, serverKey, ncalls>>
  /\ UNCHANGED <<bufvars, trivars, certvars, keyvars>>

\* after the loop: return the error, or sshClientConn.Dial("tcp", ...) and
\* return its result with the client
Dial_Return ==
  /\ dpc = "loop" /\ pass >= tryCount
  /\ IF derr # "nil"
       THEN dret' = [nc |-> 0, sshClientConn |-> 0, err |-> derr]
       ELSE \E ok \in BOOLEAN :
              dret' = [nc |-> IF ok THEN sshClientConn ELSE 0,
                       sshClientConn |-> sshClientConn,
                       err |-> IF ok THEN "nil" ELSE "dial failed"]
  /\ dpc' = "returned"
  /\ UNCHANGED <<dc, AddIfNotKnown, tryCount, pass, sshClientConn, derr,
                 serverKey, knownHosts, dconns, attempts, storedAt, nstored,
                 ncalls>>
  /\ UNCHANGED <<bufvars, trivars, certvars, keyvars>>

\* the server's key changes, or another host answers in its place
ServerKeyChange ==
  /\ \E k \in ServerKeys \ {serverKey} : serverKey' = k
  /\ UNCHANGED <<dc, AddIfNotKnown, tryCount, pass, sshClientConn, derr, dpc,
                 knownHosts, dconns, attempts, storedAt, nstored, ncalls,
                 dret>>
  /\ UNCHANGED <<bufvars, trivars, certvars, keyvars>>

Dial == Dial_Call \/ Dial_SSHConnect \/ Dial_Return

NextDial == Dial_Call \/ Dial_SSHConnect \/ Dial_Return \/ ServerKeyChange

\* each part of the program runs with the other parts at rest
RestBuf == InitBuf
RestTri == InitTri /\ cfg.IdleTimeoutDur = 0
CertInit == InitCert /\ RestKey /\ RestDial /\ RestBuf /\ RestTri
KeyInit == InitKey /\ RestCert /\ RestDial /\ RestBuf /\ RestTri
DialInit == InitDial /\ RestCert /\ RestKey /\ RestBuf /\ RestTri

CertSpec == CertInit /\ [][NextCert]_vars
KeySpec == KeyInit /\ [][NextKey]_vars
DialSpec == DialInit /\ [][NextDial]_vars

\* the buffer is at rest while the supervisor runs, and the other way round
TriInit == InitTri /\ InitBuf /\ RestCert /\ RestKey /\ RestDial
BufInit == InitBuf /\ RestTri /\ RestCert /\ RestKey /\ RestDial

TriSpec == TriInit /\ [][NextTri]_vars

NextBuf ==
  \/ write_Lock \/ write_Body \/ eof_Lock \/ eof_Body \/ timeout
  \/ TimerFire \/ RequestStop
  \/ Read_Lock \/ Read_exit \/ Read_copy \/ Read_next \/ Read_break
  \/ Read_closed \/ Read_select \/ Read_Wait \/ Read_Wake
  \/ Read_Unlock \/ Read_Return

BufSpec == BufInit /\ [][NextBuf]_vars

\* the scheduler runs a goroutine that can run: a Read under way goes on
FairBufSpec == BufInit /\ [][NextBuf]_vars /\ WF_vars(ReadStep)

\* as FairBufSpec, and a producer that holds the mutex goes on, and a
\* reader that has been signalled gets the mutex in the end
LiveBufSpec ==
  /\ BufInit /\ [][NextBuf]_vars
  /\ WF_vars(ReadStep)
  /\ SF_vars(Read_Wake)
  /\ WF_vars(write_Body \/ eof_Body)

TypeOKBuf ==
  /\ closed \in BOOLEAN /\ waiting \in BOOLEAN
  /\ mu \in {"free", "reader", "producer"}
  /\ ppc \in {"idle", "write", "eof"}
  /\ rpc \in {"idle", "loop", "wait", "parked", "unlock", "reset", "done"}
  /\ err \in {"nil", "EOF", "timeout"}
  /\ list # <<>>
  /\ n = Len(out) /\ rlen = rdst - n
  /\ resetTick \in BOOLEAN /\ timeoutCalled \in BOOLEAN
  /\ sawEOF \in BOOLEAN /\ (timeoutCalled => idleFired)

\* ================================================== properties: buffer
\* the bytes the Read under way has copied and not yet returned
InFlight == IF rpc \in {"idle", "done"} THEN <<>> ELSE out

\* the bytes that were there for the Read that is about to return
Available == out \o Unread

\* a Read has made up its result and still holds the mutex
Returning == rpc = "unlock"

\* C1: the concatenation of the bytes returned by successive Reads is a
\* prefix of the concatenation of the slices passed to write, in write
\* order: no byte is lost, duplicated or reordered.
C1_ReadsArePrefixOfWrites ==
  /\ IsPrefix(delivered, written)
  /\ delivered \o InFlight \o Unread = written

\* C1 witness: one Read took the whole slice <<1>> and the first byte of the
\* slice <<2, 3>>, whose rest is still queued.
C1_Witness ==
  /\ rpc = "done" /\ out = <<1, 2>> /\ delivered = <<1, 2>>
  /\ list = << <<3>> >>

\* C2 as claimed: on a closed buffer a Read returns (0, EOF) iff no unread
\* bytes remain, and returns bytes (n > 0, nil) while some remain.
C2_Original ==
  (Returning /\ closed) =>
     /\ (n = 0 /\ err = "EOF") <=> (Available = <<>>)
     /\ (Available # <<>>) => (n > 0 /\ err = "nil")

\* C2 amended: the same for a Read whose destination is not empty; a Read
\* with an empty destination returns (0, nil) whatever the buffer holds.
C2_ClosedReadDrainsThenEOF ==
  /\ (Returning /\ closed /\ rdst > 0) =>
       /\ (n = 0 /\ err = "EOF") <=> (Available = <<>>)
       /\ (Available # <<>>) => (n > 0 /\ err = "nil")
  /\ (Returning /\ rdst = 0) => (n = 0 /\ err = "nil")

\* C2 witness: a Read on a closed buffer reports EOF after earlier Reads
\* have returned bytes.
C2_Witness ==
  /\ Returning /\ closed /\ rdst > 0
  /\ n = 0 /\ err = "EOF" /\ Len(delivered) > 0

\* C3 as claimed: a Read never returns (0, nil), for a destination of any
\* length, and does not block once a byte has been copied.
C3_Original ==
  /\ Returning => (n > 0 \/ err # "nil")
  /\ (rpc \in {"wait", "parked"}) => n = 0

\* C3 amended: a Read with a non-empty destination never returns (0, nil);
\* a Read with an empty destination returns (0, nil) at once; no Read waits
\* once a byte has been copied.
C3_NoZeroNilForNonEmptyDst ==
  /\ (Returning /\ rdst > 0) => (n > 0 \/ err # "nil")
  /\ (Returning /\ rdst = 0) => (n = 0 /\ err = "nil")
  /\ (rpc \in {"wait", "parked"}) => (n = 0 /\ rdst > 0)

\* C3 witness: a Read returns fewer bytes than its destination holds,
\* without waiting for more.
C3_Witness ==
  /\ Returning /\ rdst = 2 /\ n = 1 /\ err = "nil" /\ ~closed

\* C4: a Read that fails with timeout leaves the buffer open and usable:
\* neither timeout() nor the timed-out Read closes the buffer or changes the
\* queued data, later Reads deliver what was written, in order, and EOF is
\* reported only after eof() was called.
C4_TimeoutLeavesBufferOpen ==
  /\ closed => eofCalled
  /\ (Returning /\ err = "EOF") => eofCalled
  /\ (Returning /\ err = "timeout") => (n = 0 /\ ~closed)
  /\ (sawTimeout \/ (Returning /\ err = "timeout")) =>
        delivered \o InFlight \o Unread = written

\* C4 witness: after a Read has timed out, a Read on the still open buffer
\* has returned bytes and everything written has been delivered.
C4_Witness ==
  /\ sawTimeout /\ ~closed /\ ~eofCalled
  /\ rpc = "done" /\ err = "nil" /\ n > 0
  /\ delivered = written

\* the Read is blocked in b.Cond.Wait()
Parked == rpc = "parked" /\ waiting

\* C5 as claimed: once the halt has been requested, a Read blocked on an
\* empty, open buffer eventually returns (with a cancellation error), with
\* no later write, eof or timeout call.
C5_Original == (idleHalt /\ Parked) ~> (rpc = "done")

\* C5 amended: the halt alone never makes a Read return: after the halt a
\* Read that finds the buffer empty and open and the timer not fired goes on
\* to b.Cond.Wait(), and a Read blocked there is released only by the Signal
\* of a write, eof or timeout call.
C5_HaltAloneDoesNotWake ==
  /\ [][(Parked /\ ~Parked') => (write_Body \/ eof_Body \/ timeout)]_vars
  /\ [][(idleHalt /\ ~idleFired /\ rpc = "loop" /\ rpc' # "loop"
          /\ rlen > 0 /\ n = 0 /\ Unread = <<>> /\ ~closed)
        => rpc' = "wait"]_vars

\* C5 witness: the halt is requested and the Read is blocked on the empty,
\* open buffer.
C5_Witness == idleHalt /\ Parked /\ Unread = <<>> /\ ~closed

\* =============================================== properties: Tricorder
\* the loop has gone through closeChannels of its deferred function
Terminated == tpc \in {"exited", "crashed"}

\* C6: on every path by which the loop ends, every channel that was in the
\* map is closed and its cancel handle fired, and the map is empty, before
\* Halt.MarkDone: Done is never seen with a channel in the map.
C6_ChannelsReleasedBeforeDone ==
  (Done \/ tpc = "deferDone" \/ Terminated) =>
     /\ sshChannels = {}
     /\ \A k \in DOMAIN chans : chans[k].closed /\ chans[k].cancelled

\* C6 witness: the loop has ended on a halt and is marked done, after
\* channels had been opened.
C6_Witness == Done /\ tpc = "exited" /\ Len(chans) = MaxChans

\* C7 as claimed: once a halt has ended the loop and it is marked done, the
\* client and the transport are null or closed.
C7_Original ==
  (Done /\ tpc = "exited") =>
     /\ cli = 0 \/ conns[cli].closed
     /\ nc = 0 \/ conns[nc].closed

\* C7 amended: a halt releases the channels only: once the loop has ended on
\* a halt, cli and nc are still those of the last connect (nil only if
\* there was none) and are not closed.
C7_HaltKeepsClient ==
  (tpc \in {"deferClose", "deferDone", "exited"} /\ ~panicking) =>
     /\ cli = Len(conns) /\ nc = Len(conns)
     /\ \A k \in DOMAIN conns : ~conns[k].closed

\* C7 witness: marked done after a halt, with a client still held.
C7_Witness == Done /\ tpc = "exited" /\ cli # 0 /\ nc # 0

\* C8: a reconnect closes and cancels every channel of the map, empties the
\* map and sets cli and nc to nil before it dials; after the dial cli and nc
\* are those of that dial, to the endpoint asked for; no channel of an
\* earlier client is in the map with a later client.
C8_ReconnectDropsChannelsFirst ==
  /\ tpc = "dial" =>
       /\ sshChannels = {} /\ cli = 0 /\ nc = 0
       /\ \A k \in DOMAIN chans : chans[k].closed /\ chans[k].cancelled
  /\ \A k \in sshChannels : chans[k].cli = cli /\ cli # 0
  /\ cli # 0 =>
       /\ cli = Len(conns) /\ nc = cli
       /\ dialled.User = uhp.User
       /\ dialled.host = splitHostPort(uhp.HostPort).host
       /\ dialled.port = splitHostPort(uhp.HostPort).port
       /\ splitHostPort(uhp.HostPort).err = "nil"

\* C8 witness: the second client is connected, the channel of the first
\* client is closed and cancelled, and the map holds a channel of the second.
C8_Witness ==
  /\ cli = 2 /\ Len(chans) = 2 /\ sshChannels = {2}
  /\ chans[1].cli = 1 /\ chans[1].closed /\ chans[1].cancelled
  /\ chans[2].cli = 2

\* the dial of the current reconnect request has failed and the loop is
\* unwinding or has ended
Aborting == panicking /\ tpc \in {"deferClose", "deferDone", "crashed"}

\* C9 as claimed: a failed re-dial is not retried, is returned as an error,
\* and the loop does not abort: it goes on serving requests.
C9_Original == dialFailed => (ndial <= 1 /\ ~Aborting)

\* C9 amended: a failed re-dial is not retried and is raised as a panic: the
\* loop runs its deferred cleanup and aborts, with cli and nc nil, and
\* serves no further request.
C9_DialFailurePanics ==
  /\ dialFailed => (ndial <= 1 /\ Aborting /\ cli = 0 /\ nc = 0)
  /\ tpc = "crashed" => (Done /\ sshChannels = {})

\* C9 witness: SSHConnect failed on a well-formed host:port and the loop
\* has aborted.
C9_Witness == dialFailed /\ ndial = 1 /\ tpc = "crashed" /\ Len(conns) = 1

\* C10: every ticket the loop has received comes back: once the loop is
\* through with it, tk.done has been closed exactly once and the ticket
\* carries a channel and no error, or an error, also when t.cli is nil.
C10_TicketAlwaysReturns ==
  \A c \in Callers :
    (cpc[c] = "wait" /\ tpc # "getChannel") =>
       /\ tk[c].done = 1
       /\ \/ (tk[c].sshChannel # 0 /\ tk[c].err = "nil")
          \/ (tk[c].sshChannel = 0 /\ tk[c].err # "nil")

\* C11: a channel its caller has closed is no longer in the map of the
\* loop: with no reconnect and no halt in between, the map holds only
\* channels that are still open, so it is empty once each is closed.
C11_ClosedChannelLeavesMap ==
  \A k \in sshChannels : ~chans[k].closed

\* the loop serves its callers as long as it runs, and a caller whose
\* ticket is done returns
FairTriSpec ==
  /\ TriInit /\ [][NextTri]_vars
  /\ WF_vars(startReconnectLoop)
  /\ \A c \in Callers : WF_vars(SSHChannel_Return(c))

\* C12: a caller that is inside SSHChannel, Cli or Nc once a halt has ended
\* the loop eventually returns from the call.
C12_CallersReturnAfterHalt ==
  \A c \in Callers : (tpc = "exited" /\ cpc[c] # "idle") ~> (cpc[c] = "idle")

\* =========================================== properties: buffer, later
\* the step by which a Read returns to its caller
ReadReturns == rpc = "reset" /\ rpc' = "done"

\* the step calls idle.Reset
ResetCalled == resetTick' # resetTick

\* C13 as claimed: idle.Reset is called exactly by a Read that returns with
\* err == nil and has delivered bytes.
C13_Original ==
  [][ResetCalled <=> (ReadReturns /\ err = "nil" /\ n > 0)]_vars

\* C13 amended: idle.Reset is called exactly by a Read that returns with
\* err == nil, which is a Read that delivered bytes or one whose
\* destination is empty; a Read returning io.EOF or ErrTimeout, and write,
\* eof and timeout, never call it.
C13_ResetExactlyOnNilError ==
  [][/\ ResetCalled <=> (ReadReturns /\ err = "nil")
     /\ ResetCalled => (n > 0 \/ rdst = 0)
     /\ ResetCalled => ~idleFired']_vars

\* C13 witness: a Read with an empty destination has returned (0, nil) and
\* reset the timer, no byte having ever been delivered.
C13_Witness ==
  /\ rpc = "done" /\ rdst = 0 /\ err = "nil" /\ n = 0
  /\ resetTick /\ delivered = <<>>

\* ============================================ properties: CertChecker
\* the certificate in hand is signed by the key it names, that key is a
\* user authority, it is a user certificate and lists the principal
SignedUserCertForPrincipal ==
  /\ SignatureVerifies(cert)
  /\ IsUserAuthority(cert.SignatureKey)
  /\ cert.CertType = "UserCert"
  /\ principal \in cert.ValidPrincipals

\* the clock is inside the validity window of the certificate
InWindow ==
  /\ cert.ValidAfter <= clock
  /\ clock < cert.ValidBefore \/ cert.ValidBefore = CertTimeInfinity

\* C14 as claimed: for a correctly signed user certificate of a trusted
\* authority that lists the principal, CheckCert succeeds exactly when the
\* clock is inside the window; for the window 50..100 the times 25, 50, 99,
\* 100, 125 give fail, ok, ok, fail, fail.
C14_Original ==
  (certpc = "checked" /\ SignedUserCertForPrincipal) =>
     /\ (checkErr = "nil") <=> InWindow
     /\ (cert.ValidAfter = 50 /\ cert.ValidBefore = 100
           /\ clock \in DOMAIN TestValidateCertTime)
          => ((checkErr = "nil") <=> TestValidateCertTime[clock])

\* C14 amended: the same, for a certificate whose critical options are all
\* understood by the checker; with an option it does not understand
\* CheckCert fails at every time.
C14_ValidExactlyInsideWindow ==
  (certpc = "checked" /\ SignedUserCertForPrincipal) =>
     /\ cert.CriticalOptions \subseteq SupportedCriticalOptions =>
          /\ (checkErr = "nil") <=> InWindow
          /\ (cert.ValidAfter = 50 /\ cert.ValidBefore = 100
                /\ clock \in DOMAIN TestValidateCertTime)
               => ((checkErr = "nil") <=> TestValidateCertTime[clock])
     /\ ~(cert.CriticalOptions \subseteq SupportedCriticalOptions) =>
          checkErr # "nil"

\* C14 witness: the certificate of the test, window 50..100, checked at 99
\* and found valid.
C14_Witness ==
  /\ certpc = "checked" /\ SignedUserCertForPrincipal
  /\ cert.ValidAfter = 50 /\ cert.ValidBefore = 100 /\ clock = 99
  /\ cert.CriticalOptions = {}
  /\ checkErr = "nil"

\* C15 as claimed: the client accepts the host certificate only if the
\* signing key is a host authority for the address dialed and the host
\* dialed is one of the principals listed; the certificate of the test is
\* accepted for hostname:22 only; client and server fail together.
C15_Original ==
  certpc = "dialed" =>
     /\ clientErr = "nil" =>
          /\ IsHostAuthority(cert.SignatureKey, addr)
          /\ addr.host \in cert.ValidPrincipals
     /\ (clientErr = "nil") <=> (serverErr = "nil")
     /\ cert = TestHostKeyCert =>
          ((clientErr = "nil") <=> (addr.host = "hostname"))

\* C15 amended: as claimed, except that a certificate that lists no
\* principal at all is accepted for every host its authority is trusted for.
C15_HostCertBoundToAddress ==
  certpc = "dialed" =>
     /\ clientErr = "nil" =>
          /\ IsHostAuthority(cert.SignatureKey, addr)
          /\ addr.host \in cert.ValidPrincipals \/ cert.ValidPrincipals = {}
     /\ (clientErr = "nil") <=> (serverErr = "nil")
     /\ cert = TestHostKeyCert =>
          ((clientErr = "nil") <=> (addr.host = "hostname"))

\* C15 witness: a host certificate that lists no principal is accepted on a
\* dial to hostname:22.
C15_Witness ==
  /\ certpc = "dialed" /\ cert.ValidPrincipals = {}
  /\ addr.host = "hostname"
  /\ clientErr = "nil" /\ serverErr = "nil"

\* ================================= properties: ParseAuthorizedKey
\* the maps of the parsed certificate hold the names and values of the
\* tuples of the line, empty data being the empty string
MapsAsEncoded ==
  /\ DOMAIN pkey.CriticalOptions =
       {line.blob.CriticalOptions[k].Name :
          k \in 1..Len(line.blob.CriticalOptions)}
  /\ \A k \in 1..Len(line.blob.CriticalOptions) :
       LET t == line.blob.CriticalOptions[k]
       IN  pkey.CriticalOptions[t.Name] =
             (IF t.Data = <<>> THEN "" ELSE t.Data[1])
  /\ DOMAIN pkey.Extensions =
       {line.blob.Extensions[k].Name : k \in 1..Len(line.blob.Extensions)}
  /\ \A k \in 1..Len(line.blob.Extensions) :
       LET t == line.blob.Extensions[k]
       IN  pkey.Extensions[t.Name] =
             (IF t.Data = <<>> THEN "" ELSE t.Data[1])

C17_TofuIsOneShot ==
  /\ storedAt # 0 =>
       /\ attempts[storedAt]
       /\ \A j \in (storedAt + 1)..Len(attempts) : ~attempts[j]
       /\ ~dc.TofuAddIfNotKnown /\ ~AddIfNotKnown
  /\ nstored > 0 => ~dc.TofuAddIfNotKnown
  /\ nstored <= 1

\* C17 witness: a call has stored the key on its first pass, made its second
\* pass with the flag cleared, and returned.
C17_Witness ==
  /\ dpc = "returned" /\ storedAt = 1
  /\ attempts = <<TRUE, FALSE>>
  /\ ~dc.TofuAddIfNotKnown /\ dret.err = "nil"

\* C18: no wakeup of write or eof is lost. A Read blocked in b.Cond.Wait()
\* is on the notify list only while the buffer is empty and open: every
\* write of bytes and every eof made since it blocked has signalled it.
\* The Read so woken returns the bytes, min(len(dst), bytes unread) of them
\* and no error, or, on the still empty buffer after eof, (0, io.EOF); it
\* never returns ErrTimeout with bytes or eof at hand.
C18_NoLostWakeup ==
  /\ Parked => (Unread = <<>> /\ ~closed)
  /\ rpc = "wait" => (Unread = <<>> /\ ~closed /\ mu = "reader")
  /\ (Returning /\ rdst > 0 /\ err = "nil") =>
       (n = Min(rdst, Len(Available)) /\ n > 0)
  /\ (Returning /\ rdst > 0 /\ closed /\ Available = <<>>) =>
       (err = "EOF" /\ n = 0)
  /\ (Returning /\ err = "timeout") => (Available = <<>> /\ ~closed)

\* with a fair scheduler the Read that a write or an eof has signalled
\* does return
WokenReadReturns ==
  /\ (rpc = "parked" /\ Unread # <<>>)
       ~> (rpc = "done" /\ err = "nil" /\ n > 0)
  /\ (rpc = "parked" /\ closed) ~> (rpc = "done" /\ err \in {"nil", "EOF"})

\* C18 witness: the Read was blocked in b.Cond.Wait() on the empty buffer,
\* one write of two bytes has signalled it, and it has yet to wake.
C18_Witness ==
  /\ rpc = "parked" /\ ~waiting /\ rdst = 2
  /\ nwrites = 1 /\ Len(Unread) = 2 /\ ~closed /\ ~timeoutCalled

\* the Read is inside the call, on the empty and open buffer, the timer has
\* fired and timeout() has been called for it
TimeoutDue ==
  /\ rpc \in {"loop", "wait", "parked"} /\ rdst > 0
  /\ Unread = <<>> /\ ~closed
  /\ idleFired /\ timeoutCalled /\ ~idleHalt

\* C19: once the timer has fired and timeout() has been called, a Read that
\* is on the empty, open buffer eventually returns (with ErrTimeout if
\* nothing is written and the buffer is not closed), however the call of
\* timeout() falls between the Read's check of the timer and its
\* b.Cond.Wait().
C19_TimeoutIsDelivered == TimeoutDue ~> (rpc = "done" \/ idleHalt)

\* C20 as claimed: once a Read has returned io.EOF the buffer stays closed
\* and every Read that returns from then on returns (0, io.EOF).
C20_Original ==
  sawEOF => (closed /\ (rpc = "done" => (err = "EOF" /\ n = 0)))

\* C20 amended: closed is never cleared, by write, eof or timeout; once a
\* Read has returned io.EOF, a Read with a non-empty destination returns
\* (0, io.EOF) when no bytes are unread, and the bytes of a write made
\* after the eof when there are; a Read with an empty destination returns
\* (0, nil); none returns ErrTimeout.
C20_ClosedIsFinal ==
  /\ [][closed => closed']_vars
  /\ [](sawEOF => closed)
  /\ []((sawEOF /\ Returning /\ rdst > 0 /\ Available = <<>>) =>
          (err = "EOF" /\ n = 0))
  /\ []((sawEOF /\ Returning /\ rdst > 0 /\ Available # <<>>) =>
          (err = "nil" /\ n > 0))
  /\ []((sawEOF /\ Returning /\ rdst = 0) => (err = "nil" /\ n = 0))

\* C20 witness: a Read has returned io.EOF, bytes were written after it, and
\* a later Read has returned them with no error.
C20_Witness ==
  /\ sawEOF /\ closed /\ rpc = "done" /\ err = "nil" /\ n > 0
  /\ delivered = written

====
